---- MODULE Spec2Model ----
(***************************************************************************)
(* Model of tera-text-filters (src/src/lib.rs): seven Tera filters that    *)
(* change the case of a text value, and register_all, which binds them to  *)
(* their names in a Tera instance.                                         *)
(*                                                                         *)
(* A string is a sequence of characters.  A character is written as a      *)
(* one-character TLA+ string; the characters outside ASCII are written by  *)
(* their code point ("U+00DF" is the sharp s, "U+0130" the capital I with  *)
(* dot above, "U+0307" the combining dot above).                           *)
(*                                                                         *)
(* The filters call str::to_lowercase / str::to_uppercase of the Rust      *)
(* standard library and the to_*_case methods of the heck crate (0.3).     *)
(* Both are modelled by what they compute: the full Unicode case mappings  *)
(* of the characters of Chars, and heck's word splitting loop.             *)
(***************************************************************************)
EXTENDS Integers, Sequences, FiniteSets, TLC

\* registry: the filters of the Tera instance, by name ("none": not registered)
\* value:    the value the last filter call or render was given (the
\*           context's "i" in a render)
\* template: the filter named by the template "{{ i | <name> }}" of the last
\*           render
\* called:   the operation that ran last
\* result:   what that operation returned
\* prior:    the registry as it was before the last register_all
\* nregs:    the number of single register_filter calls made so far
VARIABLES registry, value, template, called, result, prior, nregs

vars == <<registry, value, template, called, result, prior, nregs>>

(***************************************************************************)
(* Bounds                                                                  *)
(***************************************************************************)
MaxLen == 4

(***************************************************************************)
(* Characters                                                              *)
(***************************************************************************)
LowerAscii == {"a", "e", "i", "m", "o", "s", "t", "x"}
UpperAscii == {"A", "E", "I", "M", "O", "S", "T", "X"}
Digits == {"1"}
Separators == {" ", "-"}
Underscore == "_"
SharpS == "U+00DF"
CapitalIDot == "U+0130"
CombiningDot == "U+0307"

Ascii == LowerAscii \cup UpperAscii \cup Digits \cup Separators \cup {Underscore}
Chars == Ascii \cup {SharpS, CapitalIDot, CombiningDot}

\* char::to_uppercase of an ASCII lowercase letter
AsciiUpperOf(c) ==
  CASE c = "a" -> "A" [] c = "e" -> "E" [] c = "i" -> "I" [] c = "m" -> "M"
    [] c = "o" -> "O" [] c = "s" -> "S" [] c = "t" -> "T" [] c = "x" -> "X"

\* char::to_lowercase of an ASCII uppercase letter
AsciiLowerOf(c) ==
  CASE c = "A" -> "a" [] c = "E" -> "e" [] c = "I" -> "i" [] c = "M" -> "m"
    [] c = "O" -> "o" [] c = "S" -> "s" [] c = "T" -> "t" [] c = "X" -> "x"

is_lowercase(c) == c \in LowerAscii \cup {SharpS}
is_uppercase(c) == c \in UpperAscii \cup {CapitalIDot}
is_alphanumeric(c) ==
  c \in LowerAscii \cup UpperAscii \cup Digits \cup {SharpS, CapitalIDot}

\* char::to_uppercase: the uppercase mapping of one character, a string
\* (the sharp s has the two-character mapping "SS").
char_to_uppercase(c) ==
  IF c \in LowerAscii THEN <<AsciiUpperOf(c)>>
  ELSE IF c = SharpS THEN <<"S", "S">>
  ELSE <<c>>

\* char::to_lowercase: the lowercase mapping of one character, a string
\* (the capital I with dot above maps to "i" followed by the combining dot).
char_to_lowercase(c) ==
  IF c \in UpperAscii THEN <<AsciiLowerOf(c)>>
  ELSE IF c = CapitalIDot THEN <<"i", CombiningDot>>
  ELSE <<c>>

RECURSIVE to_uppercase(_)
\* str::to_uppercase: the characters' uppercase mappings, concatenated
to_uppercase(s) ==
  IF s = <<>> THEN <<>> ELSE char_to_uppercase(Head(s)) \o to_uppercase(Tail(s))

RECURSIVE to_lowercase(_)
\* str::to_lowercase: the characters' lowercase mappings, concatenated
to_lowercase(s) ==
  IF s = <<>> THEN <<>> ELSE char_to_lowercase(Head(s)) \o to_lowercase(Tail(s))

(***************************************************************************)
(* heck: the rendering of one word                                         *)
(***************************************************************************)
\* heck::lowercase(s, out): appends the word in lowercase
lowercase(s, out) == out \o to_lowercase(s)

\* heck::capitalize(s, out): appends the first character in uppercase and
\* the rest of the word in lowercase
capitalize(s, out) ==
  IF s = <<>> THEN out
  ELSE lowercase(Tail(s), out \o char_to_uppercase(Head(s)))

Styles == {"camel_case", "kebab_case", "mixed_case", "snake_case", "title_case"}

\* with_word with the mixed case closure capitalizing every word
with_word_capitalizes_first(style, s, out) ==
  CASE style = "camel_case" -> capitalize(s, out)
    [] style = "kebab_case" -> lowercase(s, out)
    [] style = "mixed_case" -> capitalize(s, out)
    [] style = "snake_case" -> lowercase(s, out)
    [] style = "title_case" -> capitalize(s, out)

\* the with_word closure each to_*_case method passes to transform
with_word(style, s, out) ==
  CASE style = "camel_case" -> capitalize(s, out)
    [] style = "kebab_case" -> lowercase(s, out)
    [] style = "mixed_case" ->
         IF out = <<>> THEN lowercase(s, out) ELSE capitalize(s, out)
    [] style = "snake_case" -> lowercase(s, out)
    [] style = "title_case" -> capitalize(s, out)

\* the boundary closure each to_*_case method passes to transform
boundary(style, out) ==
  CASE style = "camel_case" -> out
    [] style = "kebab_case" -> Append(out, "-")
    [] style = "mixed_case" -> out
    [] style = "snake_case" -> Append(out, Underscore)
    [] style = "title_case" -> Append(out, " ")

(***************************************************************************)
(* heck: transform                                                         *)
(***************************************************************************)
\* A character that unicode_words keeps inside a word: letters and digits,
\* the underscore (it joins letters and digits) and a combining mark.
InWord(c) == is_alphanumeric(c) \/ c = Underscore \/ c = CombiningDot

has_alphanumeric(w) == \E k \in 1..Len(w) : is_alphanumeric(w[k])

RECURSIVE word_bounds(_, _, _)
\* the maximal runs of in-word characters of s, in order (cur is the run
\* being read, acc the runs already closed)
word_bounds(s, cur, acc) ==
  IF s = <<>> THEN (IF cur = <<>> THEN acc ELSE Append(acc, cur))
  ELSE IF InWord(Head(s)) THEN word_bounds(Tail(s), Append(cur, Head(s)), acc)
  ELSE word_bounds(Tail(s), <<>>, IF cur = <<>> THEN acc ELSE Append(acc, cur))

\* s.unicode_words(): the runs that hold a letter or a digit
unicode_words(s) == SelectSeq(word_bounds(s, <<>>, <<>>), has_alphanumeric)

\* emits one word: the boundary unless it is the first word, then the word
emit(style, w, st) ==
  [out |-> with_word(style, w, IF st.first_word THEN st.out
                                ELSE boundary(style, st.out)),
   first_word |-> FALSE]

RECURSIVE word_loop_no_acronym(_, _, _, _, _, _)
\* word_loop without the boundary before the last letter of an uppercase run
word_loop_no_acronym(style, word, i, init, mode, st) ==
  IF i > Len(word) THEN st
  ELSE LET c == word[i] IN
    IF c = Underscore
    THEN word_loop_no_acronym(style, word, i + 1,
                              IF init = i THEN init + 1 ELSE init, mode, st)
    ELSE IF i < Len(word)
    THEN LET next == word[i + 1]
             next_mode == IF is_lowercase(c) THEN "Lowercase"
                          ELSE IF is_uppercase(c) THEN "Uppercase"
                          ELSE mode
         IN IF next = Underscore
               \/ (next_mode = "Lowercase" /\ is_uppercase(next))
            THEN word_loop_no_acronym(style, word, i + 1, i + 1, "Boundary",
                                      emit(style, SubSeq(word, init, i), st))
            ELSE word_loop_no_acronym(style, word, i + 1, init, next_mode, st)
    ELSE emit(style, SubSeq(word, init, Len(word)), st)

RECURSIVE word_loop(_, _, _, _, _, _)
\* the while loop of transform over the characters of one word: i is the
\* position of the current character, init the start of the pending
\* fragment, mode the WordMode, st the output and the first_word flag
word_loop(style, word, i, init, mode, st) ==
  IF i > Len(word) THEN st
  ELSE LET c == word[i] IN
    IF c = Underscore
    THEN word_loop(style, word, i + 1, IF init = i THEN init + 1 ELSE init,
                   mode, st)
    ELSE IF i < Len(word)
    THEN LET next == word[i + 1]
             next_mode == IF is_lowercase(c) THEN "Lowercase"
                          ELSE IF is_uppercase(c) THEN "Uppercase"
                          ELSE mode
         IN IF next = Underscore
               \/ (next_mode = "Lowercase" /\ is_uppercase(next))
            THEN word_loop(style, word, i + 1, i + 1, "Boundary",
                           emit(style, SubSeq(word, init, i), st))
            ELSE IF mode = "Uppercase" /\ is_uppercase(c) /\ is_lowercase(next)
            THEN word_loop(style, word, i + 1, i, "Boundary",
                           emit(style, SubSeq(word, init, i - 1), st))
            ELSE word_loop(style, word, i + 1, init, next_mode, st)
    ELSE emit(style, SubSeq(word, init, Len(word)), st)

RECURSIVE words_loop(_, _, _)
\* the for loop of transform over the words of the input
words_loop(style, ws, st) ==
  IF ws = <<>> THEN st
  ELSE words_loop(style, Tail(ws),
                  word_loop(style, Head(ws), 1, 1, "Boundary", st))

\* transform that reads the whole input as one word
transform_unsplit(style, s) ==
  word_loop(style, s, 1, 1, "Boundary", [out |-> <<>>, first_word |-> TRUE]).out

\* heck::transform(s, with_word, boundary)
transform(style, s) ==
  words_loop(style, unicode_words(s), [out |-> <<>>, first_word |-> TRUE]).out

\* heck's to_*_case methods
to_camel_case(s) == transform("camel_case", s)
to_kebab_case(s) == transform("kebab_case", s)
to_mixed_case(s) == transform("mixed_case", s)
to_snake_case(s) == transform("snake_case", s)
to_title_case(s) == transform("title_case", s)

(***************************************************************************)
(* tera: values and results                                                *)
(***************************************************************************)
Str(s) == [tag |-> "String", s |-> s]
Number(n) == [tag |-> "Number", n |-> n]
Bool(b) == [tag |-> "Bool", b |-> b]
Null == [tag |-> "Null"]
Array(items) == [tag |-> "Array", items |-> items]
Object(fields) == [tag |-> "Object", fields |-> fields]

NoResult == [kind |-> "none"]
Ok(v) == [kind |-> "Ok", val |-> v]
\* the error of try_get_value!: it carries the filter's name, the name of
\* the argument, the value received and the type expected
Err(filter_name, var_name, val, ty) ==
  [kind |-> "Err", filter |-> filter_name, arg |-> var_name, got |-> val,
   expected |-> ty]

\* to_value that turns the empty string into null
to_value_empty_is_null(s) == IF s = <<>> THEN Null ELSE Str(s)

\* to_value(&String): a string becomes a string value
to_value(s) == Str(s)

\* try_get_value that writes a number out as a string
try_get_value_stringifies(filter_name, var_name, ty, val) ==
  IF val.tag = ty
  THEN [ok |-> TRUE, s |-> val.s]
  ELSE IF val.tag = "Number"
  THEN [ok |-> TRUE, s |-> <<"1">>]
  ELSE [ok |-> FALSE, err |-> Err(filter_name, var_name, val, ty)]

\* try_get_value!(filter_name, var_name, String, val): the string of a string
\* value; any other value is the early return of an error
try_get_value(filter_name, var_name, ty, val) ==
  IF val.tag = ty
  THEN [ok |-> TRUE, s |-> val.s]
  ELSE [ok |-> FALSE, err |-> Err(filter_name, var_name, val, ty)]

(***************************************************************************)
(* The filters                                                             *)
(***************************************************************************)
camel_case(v) ==
  LET s == try_get_value("camel_case", "value", "String", v)
  IN IF s.ok THEN Ok(to_value(to_camel_case(s.s))) ELSE s.err

kebab_case(v) ==
  LET s == try_get_value("kebab_case", "value", "String", v)
  IN IF s.ok THEN Ok(to_value(to_kebab_case(s.s))) ELSE s.err

\* lower_case with the body of camel_case
lower_case_as_camel_case(v) ==
  LET s == try_get_value("lower_case", "value", "String", v)
  IN IF s.ok THEN Ok(to_value(to_camel_case(s.s))) ELSE s.err

lower_case(v) ==
  LET s == try_get_value("lower_case", "value", "String", v)
  IN IF s.ok THEN Ok(to_value(to_lowercase(s.s))) ELSE s.err

mixed_case(v) ==
  LET s == try_get_value("mixed_case", "value", "String", v)
  IN IF s.ok THEN Ok(to_value(to_mixed_case(s.s))) ELSE s.err

snake_case(v) ==
  LET s == try_get_value("snake_case", "value", "String", v)
  IN IF s.ok THEN Ok(to_value(to_snake_case(s.s))) ELSE s.err

title_case(v) ==
  LET s == try_get_value("title_case", "value", "String", v)
  IN IF s.ok THEN Ok(to_value(to_title_case(s.s))) ELSE s.err

upper_case(v) ==
  LET s == try_get_value("upper_case", "value", "String", v)
  IN IF s.ok THEN Ok(to_value(to_uppercase(s.s))) ELSE s.err

Names == {"camel_case", "kebab_case", "lower_case", "mixed_case",
          "snake_case", "title_case", "upper_case"}

\* the call of the filter function f on the value v
Apply(f, v) ==
  CASE f = "camel_case" -> camel_case(v)
    [] f = "kebab_case" -> kebab_case(v)
    [] f = "lower_case" -> lower_case(v)
    [] f = "mixed_case" -> mixed_case(v)
    [] f = "snake_case" -> snake_case(v)
    [] f = "title_case" -> title_case(v)
    [] f = "upper_case" -> upper_case(v)

(***************************************************************************)
(* The inputs                                                              *)
(***************************************************************************)
InputAlphabet == {"a", "A", "1", " ", Underscore, SharpS, CapitalIDot}

some_text == <<"s", "o", "m", "e", " ", "t", "e", "x", "t">>
soMe_Text == <<"s", "o", "M", "e", " ", "T", "e", "x", "t">>
Some_text == <<"S", "o", "m", "e", " ", "t", "e", "x", "t">>
OnlySeparators == <<"-", "-", "_", "_", " ", " ">>

Examples == {some_text, soMe_Text, Some_text, OnlySeparators}

Strings == UNION {[1..n -> InputAlphabet] : n \in 0..MaxLen} \cup Examples

NonStrings == {Number(1), Bool(TRUE), Null, Array(<<>>), Array(<<Str(<<"a">>)>>),
               Object(<<>>)}

Values == {Str(s) : s \in Strings} \cup NonStrings

(***************************************************************************)
(* Specification Spec: one filter is called on one value                   *)
(***************************************************************************)
NoFilters == [n \in Names |-> "none"]

Init ==
  /\ value \in Values
  /\ registry = NoFilters
  /\ template = "none"
  /\ called = "none"
  /\ result = NoResult
  /\ prior = NoFilters
  /\ nregs = 0

\* a direct call of the filter function f, which returns r
Call(f, r) ==
  /\ called = "none"
  /\ result' = r
  /\ called' = f
  /\ UNCHANGED <<registry, value, template, prior, nregs>>

CallCamelCase == Call("camel_case", camel_case(value))
CallKebabCase == Call("kebab_case", kebab_case(value))
CallLowerCase == Call("lower_case", lower_case(value))
CallMixedCase == Call("mixed_case", mixed_case(value))
CallSnakeCase == Call("snake_case", snake_case(value))
CallTitleCase == Call("title_case", title_case(value))
CallUpperCase == Call("upper_case", upper_case(value))

Next ==
  \/ CallCamelCase
  \/ CallKebabCase
  \/ CallLowerCase
  \/ CallMixedCase
  \/ CallSnakeCase
  \/ CallTitleCase
  \/ CallUpperCase

Spec == Init /\ [][Next]_vars
(***************************************************************************)
(* Specification SpecTera: a Tera instance, its filters and its renders    *)
(***************************************************************************)
MaxRegs == 1

\* Tera::register_filter(name, filter): binds the name, replacing a filter
\* already bound to it
register_filter(reg, name, f) == [reg EXCEPT ![name] = f]

\* register_all with mixed_case bound to the camel_case filter
register_all_miswired(reg) ==
  LET r1 == register_filter(reg, "camel_case", "camel_case")
      r2 == register_filter(r1, "kebab_case", "kebab_case")
      r3 == register_filter(r2, "lower_case", "lower_case")
      r4 == register_filter(r3, "mixed_case", "camel_case")
      r5 == register_filter(r4, "snake_case", "snake_case")
      r6 == register_filter(r5, "title_case", "title_case")
      r7 == register_filter(r6, "upper_case", "upper_case")
  IN r7

\* register_all(tera): the seven register_filter calls, in order
register_all(reg) ==
  LET r1 == register_filter(reg, "camel_case", "camel_case")
      r2 == register_filter(r1, "kebab_case", "kebab_case")
      r3 == register_filter(r2, "lower_case", "lower_case")
      r4 == register_filter(r3, "mixed_case", "mixed_case")
      r5 == register_filter(r4, "snake_case", "snake_case")
      r6 == register_filter(r5, "title_case", "title_case")
      r7 == register_filter(r6, "upper_case", "upper_case")
  IN r7

Rendered(text) == [kind |-> "Rendered", text |-> text]
RenderError(cause) == [kind |-> "RenderError", cause |-> cause]

\* Tera::render_str("{{ i | name }}", ctx) with ctx.i = v: looks the filter
\* up by name, calls it on v and writes the string it returns
render_str(reg, name, v) ==
  IF reg[name] = "none" THEN RenderError([kind |-> "FilterNotFound", filter |-> name])
  ELSE LET r == Apply(reg[name], v)
       IN IF r.kind = "Ok" THEN Rendered(r.val.s) ELSE RenderError(r)

\* the values the documentation's examples insert in the context, and two
\* values that are not strings
TeraValues == {Str(some_text), Str(soMe_Text), Str(Some_text), Number(1), Bool(TRUE)}

\* the filter functions a single register_filter call is given
RegFilters == {"snake_case", "title_case", "upper_case"}

InitTera ==
  /\ value = Null
  /\ registry = NoFilters
  /\ template = "none"
  /\ called = "none"
  /\ result = NoResult
  /\ prior = NoFilters
  /\ nregs = 0

RegisterFilter ==
  \E name \in Names, f \in RegFilters :
    /\ nregs < MaxRegs
    /\ registry' = register_filter(registry, name, f)
    /\ nregs' = nregs + 1
    /\ called' = "register_filter"
    /\ result' = NoResult
    /\ value' = Null
    /\ template' = "none"
    /\ UNCHANGED prior

RegisterAll ==
  /\ registry' = register_all(registry)
  /\ prior' = registry
  /\ called' = "register_all"
  /\ result' = NoResult
  /\ value' = Null
  /\ template' = "none"
  /\ UNCHANGED nregs

RenderStr ==
  \E name \in Names, v \in TeraValues :
    /\ value' = v
    /\ template' = name
    /\ result' = render_str(registry, name, v)
    /\ called' = "render_str"
    /\ UNCHANGED <<registry, prior, nregs>>

NextTera ==
  \/ RegisterFilter
  \/ RegisterAll
  \/ RenderStr

SpecTera == InitTera /\ [][NextTera]_vars
(***************************************************************************)
(* Word fragments, stated by position                                      *)
(***************************************************************************)
RECURSIVE LastCased(_, _)
\* the case of the nearest letter at or before position p of s that only
\* digits separate from position p + 1 ("none" when a separator, an
\* underscore or the start of the input comes first)
LastCased(s, p) ==
  IF p < 1 THEN "none"
  ELSE IF is_lowercase(s[p]) THEN "lower"
  ELSE IF is_uppercase(s[p]) THEN "upper"
  ELSE IF s[p] \in Digits THEN LastCased(s, p - 1)
  ELSE "none"

\* a letter or digit at the start of the input or after a character that is
\* neither a letter nor a digit
AfterSeparator(s, p) == p = 1 \/ ~is_alphanumeric(s[p - 1])

\* the positions where the specification's splitter starts a fragment
ClaimedStarts(s) ==
  {p \in 1..Len(s) :
     /\ is_alphanumeric(s[p])
     /\ \/ AfterSeparator(s, p)
        \/ /\ is_uppercase(s[p])
           /\ (is_lowercase(s[p - 1]) \/ s[p - 1] \in Digits)}

\* the positions where a fragment starts: after a separator, at an uppercase
\* letter whose nearest preceding letter (digits skipped) is lowercase, and
\* at an uppercase letter that follows an uppercase letter (digits skipped)
\* and is directly followed by a lowercase letter
FragmentStarts(s) ==
  {p \in 1..Len(s) :
     /\ is_alphanumeric(s[p])
     /\ \/ AfterSeparator(s, p)
        \/ /\ is_uppercase(s[p])
           /\ LastCased(s, p - 1) = "lower"
        \/ /\ is_uppercase(s[p])
           /\ LastCased(s, p - 1) = "upper"
           /\ p < Len(s)
           /\ is_lowercase(s[p + 1])}

Separator(style) ==
  CASE style = "camel_case" -> <<>>
    [] style = "kebab_case" -> <<"-">>
    [] style = "mixed_case" -> <<>>
    [] style = "snake_case" -> <<Underscore>>
    [] style = "title_case" -> <<" ">>

\* whether the style writes the first letter of the n-th fragment (counted
\* from 0) in uppercase
Capitalizes(style, n) ==
  \/ style \in {"camel_case", "title_case"}
  \/ style = "mixed_case" /\ n > 0

RECURSIVE Layout(_, _, _, _, _, _)
\* the text a style writes for the input s when its fragments start at the
\* positions starts: the letters and digits from position p on, appended to
\* out, n fragments having been written
Layout(style, s, starts, p, out, n) ==
  IF p > Len(s) THEN out
  ELSE IF ~is_alphanumeric(s[p]) THEN Layout(style, s, starts, p + 1, out, n)
  ELSE IF p \in starts
  THEN Layout(style, s, starts, p + 1,
              out \o (IF n > 0 THEN Separator(style) ELSE <<>>)
                  \o (IF Capitalizes(style, n) THEN char_to_uppercase(s[p])
                      ELSE char_to_lowercase(s[p])),
              n + 1)
  ELSE Layout(style, s, starts, p + 1, out \o char_to_lowercase(s[p]), n)

IsString(v) == v.tag = "String"
NoAlphanumeric(s) == \A k \in 1..Len(s) : ~is_alphanumeric(s[k])
IsAscii(s) == \A k \in 1..Len(s) : s[k] \in Ascii

(***************************************************************************)
(* Properties                                                              *)
(***************************************************************************)

\* C1: each of the seven filters, called on a value that is not a string,
\* returns the error that names the filter, the argument "value" and the
\* expected type String, and never a converted string.
NonStringIsTypeError ==
  (called \in Names /\ ~IsString(value))
    => /\ result = Err(called, "value", value, "String")
       /\ result.kind # "Ok"

NonStringIsTypeErrorWitness ==
  /\ called = "upper_case"
  /\ value = Number(1)
  /\ result.kind = "Err"
  /\ result.filter = "upper_case"

\* C2: after register_all every one of the seven names is registered and
\* dispatches to the filter of the same style, whatever was bound before.
RegisterAllBindsEveryName ==
  called = "register_all"
    => \A n \in Names :
         /\ registry[n] = n
         /\ \A v \in TeraValues :
              render_str(registry, n, v)
                = (IF Apply(n, v).kind = "Ok" THEN Rendered(Apply(n, v).val.s)
                   ELSE RenderError(Apply(n, v)))

RegisterAllBindsEveryNameWitness ==
  /\ called = "register_all"
  /\ prior["camel_case"] = "snake_case"
  /\ registry["camel_case"] = "camel_case"

\* C3: every one of the seven filters converts the empty string to the
\* empty string, without error.
EmptyStringStaysEmpty ==
  (called \in Names /\ value = Str(<<>>)) => result = Ok(Str(<<>>))

EmptyStringStaysEmptyWitness ==
  called = "camel_case" /\ value = Str(<<>>) /\ result = Ok(Str(<<>>))

\* C4: on a string without any letter or digit the word-based filters
\* return the empty string, and lower_case and upper_case return the input
\* unchanged.
NoAlphanumericInput ==
  (called \in Names /\ IsString(value) /\ NoAlphanumeric(value.s))
    => /\ called \in Styles => result = Ok(Str(<<>>))
       /\ called \in {"lower_case", "upper_case"} => result = Ok(value)

NoAlphanumericInputWitness ==
  /\ called = "kebab_case"
  /\ value = Str(OnlySeparators)
  /\ result = Ok(Str(<<>>))

\* the words of r are joined by single separators sep: none leads, none
\* trails, no two are adjacent
SingleSeparators(r, sep) ==
  /\ r # <<>> => (r[1] # sep /\ r[Len(r)] # sep)
  /\ \A k \in 1..(Len(r) - 1) : ~(r[k] = sep /\ r[k + 1] = sep)

some_underscore_text == <<"s", "o", "m", "e", "_", "t", "e", "x", "t">>
Some_Text == <<"S", "o", "m", "e", " ", "T", "e", "x", "t">>
So_Me_Text == <<"S", "o", " ", "M", "e", " ", "T", "e", "x", "t">>
someText == <<"s", "o", "m", "e", "T", "e", "x", "t">>
SomeText == <<"S", "o", "m", "e", "T", "e", "x", "t">>

\* C5: snake_case returns the words in lowercase joined by single
\* underscores, none leading or trailing, and "soMe Text" gives "some_text".
SnakeCaseOfSoMeText ==
  (called = "snake_case" /\ IsString(value))
    => /\ result.kind = "Ok"
       /\ SingleSeparators(result.val.s, Underscore)
       /\ \A k \in 1..Len(result.val.s) : ~is_uppercase(result.val.s[k])
       /\ value.s = soMe_Text => result.val.s = some_underscore_text

\* C6: title_case returns the words, first letter in uppercase and the rest
\* in lowercase, joined by single spaces, and "soMe Text" gives "Some Text".
TitleCaseOfSoMeText ==
  (called = "title_case" /\ IsString(value))
    => /\ result.kind = "Ok"
       /\ SingleSeparators(result.val.s, " ")
       /\ \A k \in 1..Len(result.val.s) :
            (k = 1 \/ result.val.s[k - 1] = " ")
              => ~is_lowercase(result.val.s[k])
       /\ value.s = soMe_Text => result.val.s = Some_Text

\* C7: with title_case registered under "title_case", rendering
\* "{{ i | title_case }}" with i = "soMe Text" produces "some_text".
RenderTitleCaseDocExample ==
  (/\ called = "render_str"
   /\ template = "title_case"
   /\ registry["title_case"] = "title_case"
   /\ value = Str(soMe_Text))
    => result = Rendered(some_underscore_text)

\* the filter that ran, applied once more to its own result, returns it
IdempotentOnResult ==
  /\ called = "lower_case" => lower_case(result.val) = result
  /\ called = "upper_case" => upper_case(result.val) = result

\* the other filter applied to the result, and then the filter that ran,
\* returns the result
RoundTripOnResult ==
  /\ called = "lower_case" => lower_case(upper_case(result.val).val) = result
  /\ called = "upper_case" => upper_case(lower_case(result.val).val) = result

\* C8 as stated: for every string x, lower_case and upper_case are
\* idempotent, lower_case(upper_case(lower_case(x))) = lower_case(x) and
\* upper_case(lower_case(upper_case(x))) = upper_case(x).
CaseRoundTripEveryString ==
  (called \in {"lower_case", "upper_case"} /\ IsString(value))
    => (IdempotentOnResult /\ RoundTripOnResult)

\* C8, amended: for every string x, lower_case and upper_case are
\* idempotent; for every string x of ASCII characters
\* lower_case(upper_case(lower_case(x))) = lower_case(x) and
\* upper_case(lower_case(upper_case(x))) = upper_case(x).
CaseRoundTripAscii ==
  (called \in {"lower_case", "upper_case"} /\ IsString(value))
    => /\ IdempotentOnResult
       /\ IsAscii(value.s) => RoundTripOnResult

CaseRoundTripAsciiWitness ==
  /\ called = "lower_case"
  /\ value = Str(soMe_Text)
  /\ result = Ok(Str(some_text))
  /\ upper_case(result.val) # Ok(value)

\* the first letter or digit of s
FirstAlphanumeric(s) ==
  s[CHOOSE p \in 1..Len(s) :
      is_alphanumeric(s[p]) /\ \A q \in 1..(p - 1) : ~is_alphanumeric(s[q])]

\* m is c with the uppercase form of the letter f at its head replaced by
\* the lowercase form of f
LowersInitial(c, m, f) ==
  LET u == char_to_uppercase(f)
      l == char_to_lowercase(f)
  IN /\ Len(c) >= Len(u)
     /\ SubSeq(c, 1, Len(u)) = u
     /\ m = l \o SubSeq(c, Len(u) + 1, Len(c))

\* C9: mixed_case writes the fragments without separator, the first in
\* lowercase, the later ones capitalized; its result is the camel_case
\* result with the initial letter of the first word in lowercase;
\* "Some text" gives "someText" and camel_case of "some text" "SomeText".
MixedCaseLowersFirstWord ==
  (called = "mixed_case" /\ IsString(value))
    => /\ result.kind = "Ok"
       /\ result.val.s
            = Layout("mixed_case", value.s, FragmentStarts(value.s), 1, <<>>, 0)
       /\ IF NoAlphanumeric(value.s)
          THEN result.val.s = <<>> /\ camel_case(value) = Ok(Str(<<>>))
          ELSE LowersInitial(camel_case(value).val.s, result.val.s,
                             FirstAlphanumeric(value.s))
       /\ value.s = Some_text => result.val.s = someText
       /\ camel_case(Str(some_text)) = Ok(Str(SomeText))

MixedCaseLowersFirstWordWitness ==
  /\ called = "mixed_case"
  /\ value = Str(Some_text)
  /\ result = Ok(Str(someText))

====
